---- MODULE Spec2Model ----
(***************************************************************************)
(* The Customer value object of src/customer.py: its four construction     *)
(* paths, its field validators and its five setters.                       *)
(*                                                                         *)
(* Python values are records [t, n, s]: t is the type name, n the number   *)
(* held by an int, a bool (True = 1, False = 0) or a float (the float      *)
(* n.0), s the characters of a str.  A character is a one-element atom;    *)
(* the five key words ("customer_id", ...) are atoms of their own, so that *)
(* a str or a list decoded from JSON can hold them.                        *)
(*                                                                         *)
(* Every failure of the code is a ValueError told apart only by its        *)
(* message; an error here is [kind, line, missing], kind being the name    *)
(* the specification gives to the message raised at source line `line`.    *)
(* An exception the interpreter itself raises (the built-in TypeError of   *)
(* `x in 5` or of `"abc"["k"]`) has kind "RuntimeTypeError".               *)
(***************************************************************************)
EXTENDS Integers, Sequences, FiniteSets, TLC

VARIABLES
    constructed,      \* TRUE once __init__ has returned normally
    customer_id,      \* self.__customer_id
    name,             \* self.__name
    address,          \* self.__address
    phone,            \* self.__phone
    contact_person,   \* self.__contact_person
    op,               \* the last call made: "none", "init", "set_..."
    call,             \* the arguments of the last constructor call
    arg,              \* the argument of the last setter call
    err,              \* what the last call raised (NoError when it returned)
    pre               \* the five fields as they were before the last call

vars == <<constructed, customer_id, name, address, phone, contact_person,
          op, call, arg, err, pre>>

(***************************************************************************)
(* Bounds of the model.                                                    *)
(***************************************************************************)
\* longest name / address / contact person tried by the single-call check
MaxStrLen == 6
\* longest phone tried exhaustively by the single-call check
MaxPhoneLen == 3
\* most positional arguments tried (the code tells 1 and 5 from the rest)
MaxArgs == 6
\* largest customer id tried, and the smallest is its negation
MaxId == 2
\* longest sequence of JSON lexemes tried exhaustively
MaxTextLen == 3

(***************************************************************************)
(* Python values.                                                          *)
(***************************************************************************)
PyInt(i) == [t |-> "int", n |-> i, s |-> <<>>]
PyBool(b) == [t |-> "bool", n |-> IF b THEN 1 ELSE 0, s |-> <<>>]
PyFloat(i) == [t |-> "float", n |-> i, s |-> <<>>]
PyNone == [t |-> "NoneType", n |-> 0, s |-> <<>>]
PyStr(cs) == [t |-> "str", n |-> 0, s |-> cs]
PyList == [t |-> "list", n |-> 0, s |-> <<>>]
PyDict == [t |-> "dict", n |-> 0, s |-> <<>>]
\* an attribute that was never assigned
Unset == [t |-> "unset", n |-> 0, s |-> <<>>]

\* isinstance(v, int): bool is a subclass of int
IsInstanceInt(v) == v.t \in {"int", "bool"}
\* isinstance(v, str)
IsInstanceStr(v) == v.t = "str"

(***************************************************************************)
(* Errors.                                                                 *)
(***************************************************************************)
NoError == [kind |-> "ok", line |-> 0, missing |-> <<>>]
Raise(kind, line) == [kind |-> kind, line |-> line, missing |-> <<>>]

(***************************************************************************)
(* str methods.                                                            *)
(***************************************************************************)
\* the characters str.strip() and str.split() take for whitespace
Whitespace == {" ", "\t"}
\* the characters str.isdigit() accepts: the decimal digits and the other
\* Unicode digits ("sup2" is SUPERSCRIPT TWO, a digit that is not decimal)
DecimalDigits == {"1", "2", "3", "4", "5", "6"}
DigitChars == DecimalDigits \cup {"sup2"}

RECURSIVE lstrip(_)
lstrip(s) ==
    IF s = <<>> THEN <<>>
    ELSE IF Head(s) \in Whitespace THEN lstrip(Tail(s)) ELSE s

RECURSIVE rstrip(_)
rstrip(s) ==
    IF s = <<>> THEN <<>>
    ELSE IF s[Len(s)] \in Whitespace THEN rstrip(SubSeq(s, 1, Len(s) - 1)) ELSE s

strip(s) == rstrip(lstrip(s))

\* the length of the first word of s, which does not start with whitespace
RECURSIVE WordLen(_)
WordLen(s) ==
    IF s = <<>> \/ Head(s) \in Whitespace THEN 0 ELSE 1 + WordLen(Tail(s))

\* str.split() without arguments: the words between runs of whitespace
RECURSIVE split(_)
split(s) ==
    LET r == lstrip(s) IN
    IF r = <<>> THEN <<>>
    ELSE LET w == WordLen(r) IN
         <<SubSeq(r, 1, w)>> \o split(SubSeq(r, w + 1, Len(r)))

\* s.replace(c, "")
replace(s, c) == SelectSeq(s, LAMBDA x : x # c)

\* str.isdigit(): not empty, and every character a digit
isdigit(s) == s # <<>> /\ \A i \in 1..Len(s) : s[i] \in DigitChars

(***************************************************************************)
(* The validators (static methods of Customer).  Each returns the error it *)
(* raises, NoError when it returns.                                        *)
(***************************************************************************)
validate_customer_id(v) ==
    IF ~IsInstanceInt(v) THEN Raise("TypeError", 78)
    ELSE IF v.n <= 0 THEN Raise("RangeError", 80)
    ELSE NoError

\* a slip: the length of the value as given is compared, not the trimmed one
validate_string_field_Untrimmed(v, min_length) ==
    IF ~IsInstanceStr(v) THEN Raise("TypeError", 85)
    ELSE IF strip(v.s) = <<>> THEN Raise("EmptyValueError", 87)
    ELSE IF Len(v.s) < min_length THEN Raise("TooShortError", 89)
    ELSE NoError

validate_string_field(v, min_length) ==
    IF ~IsInstanceStr(v) THEN Raise("TypeError", 85)
    ELSE IF strip(v.s) = <<>> THEN Raise("EmptyValueError", 87)
    ELSE IF Len(strip(v.s)) < min_length THEN Raise("TooShortError", 89)
    ELSE NoError

clean_phone(s) == replace(replace(replace(replace(s, " "), "("), ")"), "-")

validate_phone(v) ==
    IF ~IsInstanceStr(v) THEN Raise("TypeError", 95)
    ELSE IF ~isdigit(clean_phone(v.s)) THEN Raise("InvalidFormatError", 99)
    ELSE IF Len(clean_phone(v.s)) < 5 THEN Raise("TooShortError", 101)
    ELSE NoError

\* a slip: the tokens are counted before the generic string check is made
validate_contact_person_TokensFirst(v) ==
    IF ~IsInstanceStr(v) THEN Raise("TypeError", 85)
    ELSE IF Len(split(strip(v.s))) < 2 THEN Raise("MalformedNameError", 110)
    ELSE validate_string_field(v, 2)

validate_contact_person(v) ==
    LET e == validate_string_field(v, 2) IN
    IF e # NoError THEN e
    ELSE IF Len(split(strip(v.s))) < 2 THEN Raise("MalformedNameError", 110)
    ELSE NoError

(***************************************************************************)
(* Arguments and JSON.  A value handed to the constructor, or decoded by   *)
(* json.loads, is [t, n, s, items, toks]: items are the entries of a dict  *)
(* ([key, val], key the characters of the key) or the elements of a list   *)
(* (key <<>>); toks are the JSON lexemes of a str that is handed to        *)
(* json.loads.  A container nested in another one keeps only its type.     *)
(***************************************************************************)
ArgOf(v) == [t |-> v.t, n |-> v.n, s |-> v.s, items |-> <<>>, toks |-> <<>>]
ArgDict(items) == [t |-> "dict", n |-> 0, s |-> <<>>, items |-> items, toks |-> <<>>]
ArgList(items) == [t |-> "list", n |-> 0, s |-> <<>>, items |-> items, toks |-> <<>>]
ArgText(toks) == [t |-> "str", n |-> 0, s |-> <<>>, items |-> <<>>, toks |-> toks]
\* the plain value of an argument
ValOf(a) == [t |-> a.t, n |-> a.n, s |-> a.s]

Item(k, v) == [key |-> k, val |-> v]

\* JSON lexemes: punctuation, string and number literals, true/false/null,
\* and "junk" for anything that is no JSON lexeme
Tok(k) == [k |-> k, n |-> 0, s |-> <<>>]
TokStr(cs) == [k |-> "string", n |-> 0, s |-> cs]
TokInt(i) == [k |-> "int", n |-> i, s |-> <<>>]
TokFloat(i) == [k |-> "float", n |-> i, s |-> <<>>]

\* the result of parsing one JSON value: where the next lexeme is, the value,
\* and for a container its entries
ParseFail == [ok |-> FALSE, next |-> 0, v |-> PyNone, items |-> <<>>]
ParseOk(i, v, items) == [ok |-> TRUE, next |-> i, v |-> v, items |-> items]

RECURSIVE ParseValue(_, _)
RECURSIVE ParseMembers(_, _, _)
RECURSIVE ParseElements(_, _, _)

\* the members of an object from lexeme i on: string ":" value, then "," or "}"
ParseMembers(toks, i, acc) ==
    IF i + 1 > Len(toks) \/ toks[i].k # "string" \/ toks[i + 1].k # ":" THEN ParseFail
    ELSE LET r == ParseValue(toks, i + 2) IN
         IF ~r.ok \/ r.next > Len(toks) THEN ParseFail
         ELSE LET acc2 == Append(acc, Item(toks[i].s, r.v)) IN
              IF toks[r.next].k = "}" THEN ParseOk(r.next + 1, PyDict, acc2)
              ELSE IF toks[r.next].k = "," THEN ParseMembers(toks, r.next + 1, acc2)
              ELSE ParseFail

\* the elements of an array from lexeme i on: value, then "," or "]"
ParseElements(toks, i, acc) ==
    LET r == ParseValue(toks, i) IN
    IF ~r.ok \/ r.next > Len(toks) THEN ParseFail
    ELSE LET acc2 == Append(acc, Item(<<>>, r.v)) IN
         IF toks[r.next].k = "]" THEN ParseOk(r.next + 1, PyList, acc2)
         ELSE IF toks[r.next].k = "," THEN ParseElements(toks, r.next + 1, acc2)
         ELSE ParseFail

ParseValue(toks, i) ==
    IF i > Len(toks) THEN ParseFail
    ELSE LET tk == toks[i] IN
         CASE tk.k = "{" ->
                IF i + 1 <= Len(toks) /\ toks[i + 1].k = "}"
                THEN ParseOk(i + 2, PyDict, <<>>)
                ELSE ParseMembers(toks, i + 1, <<>>)
           [] tk.k = "[" ->
                IF i + 1 <= Len(toks) /\ toks[i + 1].k = "]"
                THEN ParseOk(i + 2, PyList, <<>>)
                ELSE ParseElements(toks, i + 1, <<>>)
           [] tk.k = "string" -> ParseOk(i + 1, PyStr(tk.s), <<>>)
           [] tk.k = "int" -> ParseOk(i + 1, PyInt(tk.n), <<>>)
           [] tk.k = "float" -> ParseOk(i + 1, PyFloat(tk.n), <<>>)
           [] tk.k = "true" -> ParseOk(i + 1, PyBool(TRUE), <<>>)
           [] tk.k = "false" -> ParseOk(i + 1, PyBool(FALSE), <<>>)
           [] tk.k = "null" -> ParseOk(i + 1, PyNone, <<>>)
           [] OTHER -> ParseFail

\* json.loads: [ok, data]; ok is FALSE when it raises json.JSONDecodeError
\* (no value, or lexemes left over after the value)
json_loads(toks) ==
    LET r == ParseValue(toks, 1) IN
    IF r.ok /\ r.next = Len(toks) + 1
    THEN [ok |-> TRUE,
          data |-> [t |-> r.v.t, n |-> r.v.n, s |-> r.v.s,
                    items |-> r.items, toks |-> <<>>]]
    ELSE [ok |-> FALSE, data |-> ArgOf(PyNone)]

(***************************************************************************)
(* The constructor.  Each step returns [err, fields]: the exception raised *)
(* and the five attributes as the call leaves them.                        *)
(***************************************************************************)
Fields(c, n, a, p, cp) ==
    [customer_id |-> c, name |-> n, address |-> a, phone |-> p, contact_person |-> cp]
NoFields == Fields(Unset, Unset, Unset, Unset, Unset)

Failed(e) == [err |-> e, fields |-> NoFields]

required_fields ==
    << <<"customer_id">>, <<"name">>, <<"address">>, <<"phone">>, <<"contact_person">> >>

\* __validate_and_init: the five validations in order, then the five assignments
validate_and_init(c, n, a, p, cp) ==
    LET e1 == validate_customer_id(c)
        e2 == validate_string_field(n, 2)
        e3 == validate_string_field(a, 5)
        e4 == validate_phone(p)
        e5 == validate_contact_person(cp)
    IN  IF e1 # NoError THEN Failed(e1)
        ELSE IF e2 # NoError THEN Failed(e2)
        ELSE IF e3 # NoError THEN Failed(e3)
        ELSE IF e4 # NoError THEN Failed(e4)
        ELSE IF e5 # NoError THEN Failed(e5)
        ELSE [err |-> NoError, fields |-> Fields(c, n, a, p, cp)]

\* whether `field in data` can be evaluated at all: it raises the built-in
\* TypeError on a number, a bool and None
Iterable(data) == data.t \in {"dict", "list", "str"}

\* `field in data`: a key of a dict, an element of a list, a substring of a str
Contains(data, field) ==
    CASE data.t = "dict" -> \E i \in 1..Len(data.items) : data.items[i].key = field
      [] data.t = "list" -> \E i \in 1..Len(data.items) : data.items[i].val = PyStr(field)
      [] data.t = "str" ->
            \E i \in 1..Len(data.s) : SubSeq(data.s, i, i + Len(field) - 1) = field
      [] OTHER -> FALSE

\* data[field] of a dict that holds the key: the last entry with that key
Lookup(data, field) ==
    LET idx == {i \in 1..Len(data.items) : data.items[i].key = field} IN
    data.items[CHOOSE i \in idx : \A j \in idx : j <= i].val

\* a slip: the search stops at the first required field that is missing
MissingFields_FirstOnly(data) ==
    LET m == SelectSeq(required_fields, LAMBDA f : ~Contains(data, f)) IN
    IF m = <<>> THEN <<>> ELSE <<Head(m)>>

\* the required fields that are not in data, in the order of required_fields
MissingFields(data) == SelectSeq(required_fields, LAMBDA f : ~Contains(data, f))

\* __init_from_dict; data is whatever the caller or json.loads supplied
init_from_dict(data) ==
    IF ~Iterable(data) THEN Failed(Raise("RuntimeTypeError", 33))
    ELSE IF MissingFields(data) # <<>>
    THEN Failed([kind |-> "MissingFieldError", line |-> 35,
                 missing |-> MissingFields(data)])
    ELSE IF data.t # "dict" THEN Failed(Raise("RuntimeTypeError", 38))
    ELSE validate_and_init(Lookup(data, <<"customer_id">>), Lookup(data, <<"name">>),
                           Lookup(data, <<"address">>), Lookup(data, <<"phone">>),
                           Lookup(data, <<"contact_person">>))

\* a slip: name and address are handed over in the wrong order
init_from_kwargs_Swapped(kwargs) ==
    IF MissingFields(kwargs) # <<>>
    THEN Failed([kind |-> "MissingFieldError", line |-> 50,
                 missing |-> MissingFields(kwargs)])
    ELSE validate_and_init(Lookup(kwargs, <<"customer_id">>), Lookup(kwargs, <<"address">>),
                           Lookup(kwargs, <<"name">>), Lookup(kwargs, <<"phone">>),
                           Lookup(kwargs, <<"contact_person">>))

\* __init_from_kwargs; kwargs is always a dict
init_from_kwargs(kwargs) ==
    IF MissingFields(kwargs) # <<>>
    THEN Failed([kind |-> "MissingFieldError", line |-> 50,
                 missing |-> MissingFields(kwargs)])
    ELSE validate_and_init(Lookup(kwargs, <<"customer_id">>), Lookup(kwargs, <<"name">>),
                           Lookup(kwargs, <<"address">>), Lookup(kwargs, <<"phone">>),
                           Lookup(kwargs, <<"contact_person">>))

\* Customer.__init__(*args, **kwargs): args a sequence of arguments, kwargs the
\* entries of the keyword dict.  Only json.JSONDecodeError is caught.
Customer__init__(args, kwargs) ==
    IF Len(args) = 1 THEN
        IF IsInstanceStr(args[1]) THEN
            LET r == json_loads(args[1].toks) IN
            IF ~r.ok THEN Failed(Raise("FormatError", 15))
            ELSE init_from_dict(r.data)
        ELSE IF args[1].t = "dict" THEN init_from_dict(args[1])
        ELSE Failed(Raise("InvalidArgumentError", 20))
    ELSE IF Len(args) = 5 THEN
        validate_and_init(ValOf(args[1]), ValOf(args[2]), ValOf(args[3]),
                          ValOf(args[4]), ValOf(args[5]))
    ELSE IF kwargs # <<>> THEN init_from_kwargs(ArgDict(kwargs))
    ELSE Failed(Raise("InvalidArgumentError", 28))

(***************************************************************************)
(* The state: one Customer object (or none yet), and the last call.        *)
(***************************************************************************)
CurrentFields == Fields(customer_id, name, address, phone, contact_person)

NoCall == [shape |-> "none", given |-> <<>>, args |-> <<>>, kwargs |-> <<>>]

\* Customer(*c.args, **c.kwargs): the object exists only if __init__ returns
Construct(c) ==
    /\ ~constructed
    /\ LET r == Customer__init__(c.args, c.kwargs) IN
        /\ constructed' = (r.err = NoError)
        /\ customer_id' = r.fields.customer_id
        /\ name' = r.fields.name
        /\ address' = r.fields.address
        /\ phone' = r.fields.phone
        /\ contact_person' = r.fields.contact_person
        /\ err' = r.err
    /\ op' = "init"
    /\ call' = c
    /\ arg' = Unset
    /\ pre' = CurrentFields

\* what every setter call records about itself
Called(which, v, e) ==
    /\ op' = which
    /\ arg' = v
    /\ err' = e
    /\ call' = NoCall
    /\ pre' = CurrentFields
    /\ UNCHANGED constructed

set_customer_id(v) ==
    /\ constructed
    /\ LET e == validate_customer_id(v) IN
        /\ customer_id' = IF e = NoError THEN v ELSE customer_id
        /\ Called("set_customer_id", v, e)
    /\ UNCHANGED <<name, address, phone, contact_person>>

set_name(v) ==
    /\ constructed
    /\ LET e == validate_string_field(v, 2) IN
        /\ name' = IF e = NoError THEN v ELSE name
        /\ Called("set_name", v, e)
    /\ UNCHANGED <<customer_id, address, phone, contact_person>>

set_address(v) ==
    /\ constructed
    /\ LET e == validate_string_field(v, 5) IN
        /\ address' = IF e = NoError THEN v ELSE address
        /\ Called("set_address", v, e)
    /\ UNCHANGED <<customer_id, name, phone, contact_person>>

set_phone(v) ==
    /\ constructed
    /\ LET e == validate_phone(v) IN
        /\ phone' = IF e = NoError THEN v ELSE phone
        /\ Called("set_phone", v, e)
    /\ UNCHANGED <<customer_id, name, address, contact_person>>

set_contact_person(v) ==
    /\ constructed
    /\ LET e == validate_contact_person(v) IN
        /\ contact_person' = IF e = NoError THEN v ELSE contact_person
        /\ Called("set_contact_person", v, e)
    /\ UNCHANGED <<customer_id, name, address, phone>>

(***************************************************************************)
(* The inputs the calls are tried on.                                      *)
(***************************************************************************)
\* every sequence over S of at most n elements
Strings(S, n) == UNION {[1..k -> S] : k \in 0..n}

\* json.dumps of a plain value, as the caller of the textual path encodes it
ValueToks(v) ==
    CASE v.t = "int" -> <<TokInt(v.n)>>
      [] v.t = "float" -> <<TokFloat(v.n)>>
      [] v.t = "bool" -> <<Tok(IF v.n = 1 THEN "true" ELSE "false")>>
      [] v.t = "NoneType" -> <<Tok("null")>>
      [] v.t = "str" -> <<TokStr(v.s)>>
      [] v.t = "list" -> <<Tok("["), Tok("]")>>
      [] OTHER -> <<Tok("{"), Tok("}")>>

RECURSIVE MemberToks(_)
MemberToks(items) ==
    IF items = <<>> THEN <<>>
    ELSE <<TokStr(Head(items).key), Tok(":")>> \o ValueToks(Head(items).val)
         \o (IF Tail(items) = <<>> THEN <<>> ELSE <<Tok(",")>> \o MemberToks(Tail(items)))

\* json.dumps of a mapping with these entries
dumps(items) == <<Tok("{")>> \o MemberToks(items) \o <<Tok("}")>>

\* the mapping of the five keys to the five values of tuple T
ItemsOf(T) == [i \in 1..5 |-> Item(required_fields[i], T[i])]

Shapes == {"text", "mapping", "positional", "named"}

\* the constructor call of one shape that supplies these entries
MakeCall(shape, items) ==
    [shape |-> shape,
     given |-> items,
     args |-> CASE shape = "text" -> <<ArgText(dumps(items))>>
                [] shape = "mapping" -> <<ArgDict(items)>>
                [] shape = "positional" -> [i \in 1..Len(items) |-> ArgOf(items[i].val)]
                [] OTHER -> <<>>,
     kwargs |-> IF shape = "named" THEN items ELSE <<>>]

\* a call of any other shape
OtherCall(args, kwargs) ==
    [shape |-> "other", given |-> <<>>, args |-> args, kwargs |-> kwargs]

Name_AB == PyStr(<<"a", "b">>)
Address_ABCDE == PyStr(<<"a", "b", "c", "d", "e">>)
Phone_12345 == PyStr(<<"1", "2", "3", "4", "5">>)
Contact_A_B == PyStr(<<"a", " ", "b">>)
BaseTuple == <<PyInt(1), Name_AB, Address_ABCDE, Phone_12345, Contact_A_B>>

\* values of the types a caller or a JSON text can supply in place of a str
NonStrs == {PyInt(7), PyFloat(1), PyBool(TRUE), PyNone, PyList, PyDict}

IdInputs ==
    {PyInt(i) : i \in (0 - MaxId)..MaxId}
    \cup {PyBool(TRUE), PyBool(FALSE), PyFloat(1), PyFloat(0), PyNone,
          PyStr(<<"1">>), PyList}

StrChars == {"a", " ", "\t"}
StrInputs == {PyStr(cs) : cs \in Strings(StrChars, MaxStrLen)} \cup NonStrs

PhoneChars == {"1", "sup2", " ", "(", ")", "-", "a"}
PhoneInputs ==
    {PyStr(p \o q) : p \in {<<>>, <<"1", "2", "3", "4">>},
                     q \in Strings(PhoneChars, MaxPhoneLen)}
    \cup {PyStr(<<"1", "2", "-", "3", "4", "(", "5", "6", ")">>), PyStr(<<"1", "2">>),
          PyStr(<<"1", "2", "3", "4", "5", "\t">>)}
    \cup NonStrs

\* a few values of each field, valid and invalid in each way
ProbeIds ==
    {PyInt(1), PyInt(2), PyInt(0), PyBool(TRUE), PyBool(FALSE), PyFloat(1), PyNone}
ProbeNames ==
    {Name_AB, PyStr(<<" ", "a", "b", " ">>), PyStr(<<" ", "a", " ">>), PyStr(<<" ">>),
     PyInt(7)}
ProbeAddresses ==
    {Address_ABCDE, PyStr(<<"a", "b", "c", "d">>), PyStr(<<>>), PyNone}
ProbePhones ==
    {Phone_12345, PyStr(<<"1", "2", "-", "3", "4", "(", "5", "6", ")">>),
     PyStr(<<"sup2", "sup2", "sup2", "sup2", "sup2">>), PyStr(<<"1", "2">>),
     PyStr(<<>>), PyStr(<<"1", "2", "3", "4", "a">>), PyInt(12345)}
ProbeContacts ==
    {Contact_A_B, PyStr(<<"a", "b">>), PyStr(<<"a">>), PyStr(<<>>), PyNone}

ProbeTuples ==
    {<<c, n, a, p, cp>> : c \in ProbeIds, n \in ProbeNames, a \in ProbeAddresses,
                          p \in ProbePhones, cp \in ProbeContacts}

\* the base tuple with one field replaced by every input of that field
OneFieldTuples ==
    {[BaseTuple EXCEPT ![1] = v] : v \in IdInputs}
    \cup {[BaseTuple EXCEPT ![2] = v] : v \in StrInputs}
    \cup {[BaseTuple EXCEPT ![3] = v] : v \in StrInputs}
    \cup {[BaseTuple EXCEPT ![4] = v] : v \in PhoneInputs}
    \cup {[BaseTuple EXCEPT ![5] = v] : v \in StrInputs}

Tuples == ProbeTuples \cup OneFieldTuples

\* mappings that hold only some of the five keys (or one key more), whatever
\* the values of the keys they hold
RequiredSet == {required_fields[i] : i \in 1..5}
PartialTuples ==
    {<<c, n, a, p, cp>> : c \in {PyInt(1), PyInt(0)}, n \in {Name_AB, PyInt(7)},
                          a \in {Address_ABCDE, PyStr(<<>>)},
                          p \in {Phone_12345, PyStr(<<"1", "2">>)},
                          cp \in {Contact_A_B, PyStr(<<"a", "b">>)}}
PartialItems ==
    {SelectSeq(ItemsOf(T), LAMBDA it : it.key \in K) :
        K \in SUBSET RequiredSet, T \in PartialTuples}
    \cup {Append(ItemsOf(T), Item(<<"note">>, PyNone)) : T \in PartialTuples}
\* a JSON object may repeat a key (a dict and keyword arguments cannot)
RepeatedItems ==
    {<<Item(<<"customer_id">>, PyInt(0))>> \o ItemsOf(T) : T \in PartialTuples}
    \cup {<<Item(<<"name">>, PyInt(0)), Item(<<"name">>, Name_AB)>>}
PartialCalls ==
    {MakeCall(sh, items) : sh \in {"text", "mapping", "named"}, items \in PartialItems}
    \cup {MakeCall("text", items) : items \in RepeatedItems}

\* calls by the number of positional arguments, with and without keywords
FirstArgs ==
    {ArgText(dumps(ItemsOf(BaseTuple))), ArgDict(ItemsOf(BaseTuple)),
     ArgOf(PyInt(5)), ArgOf(PyNone), ArgOf(PyFloat(1)), ArgOf(PyBool(TRUE)),
     ArgList(<<>>), ArgOf(BaseTuple[1])}
Positionals ==
    {[i \in 1..k |-> IF i = 1 THEN a ELSE IF i <= 5 THEN ArgOf(BaseTuple[i])
                     ELSE ArgOf(PyNone)] : k \in 0..MaxArgs, a \in FirstArgs}
Keywords ==
    {<<>>, ItemsOf(BaseTuple), <<Item(<<"name">>, Name_AB)>>,
     ItemsOf([BaseTuple EXCEPT ![1] = PyInt(0)])}
ShapeCalls == {OtherCall(a, kw) : a \in Positionals, kw \in Keywords}

\* a single str argument: every short sequence of lexemes, and longer texts
\* that are malformed or decode to something that is no mapping
Lexemes ==
    {Tok("{"), Tok("}"), Tok("["), Tok("]"), Tok(":"), Tok(","), Tok("junk"),
     TokStr(<<"name">>), TokInt(1), Tok("true"), Tok("null")}
KeyWords == <<"customer_id", " ", "name", " ", "address", " ", "phone", " ", "contact_person">>
OddTexts ==
    Strings(Lexemes, MaxTextLen)
    \cup {SubSeq(dumps(ItemsOf(BaseTuple)), 1, Len(dumps(ItemsOf(BaseTuple))) - 1),
          dumps(ItemsOf(BaseTuple)) \o <<Tok("}")>>,
          <<Tok("{"), TokStr(<<"name">>), Tok(":"), TokInt(1), Tok(","), Tok("}")>>,
          <<TokInt(5)>>, <<TokFloat(1)>>, <<Tok("false")>>, <<TokStr(<<"a", "b">>)>>,
          <<TokStr(KeyWords)>>, <<TokStr(<<>>)>>,
          <<Tok("["), TokStr(<<"customer_id">>), Tok(","), TokStr(<<"name">>), Tok(","),
            TokStr(<<"address">>), Tok(","), TokStr(<<"phone">>), Tok(","),
            TokStr(<<"contact_person">>), Tok("]")>>,
          <<Tok("["), TokStr(<<"customer_id">>), Tok(","), TokStr(<<"name">>), Tok("]")>>,
          <<Tok("[")>> \o dumps(ItemsOf(BaseTuple)) \o <<Tok("]")>>}
TextCalls == {OtherCall(<<ArgText(toks)>>, <<>>) : toks \in OddTexts}

OtherCalls == PartialCalls \cup ShapeCalls \cup TextCalls

\* the calls of the object's lifetime: a few tuples in each of the four shapes
LifeTuples ==
    {<<c, n, a, p, cp>> : c \in {PyInt(1), PyBool(TRUE), PyInt(0)},
                          n \in {Name_AB, PyStr(<<"a">>)},
                          a \in {Address_ABCDE, PyStr(<<"a", "b", "c", "d">>)},
                          p \in {Phone_12345, PyStr(<<"1", "2">>)},
                          cp \in {Contact_A_B, PyStr(<<"a", "b">>)}}

(***************************************************************************)
(* Spec: the lifetime of one object.  A construction (tried again if it    *)
(* fails), then any sequence of setter calls.                              *)
(***************************************************************************)
Init ==
    /\ constructed = FALSE
    /\ customer_id = Unset
    /\ name = Unset
    /\ address = Unset
    /\ phone = Unset
    /\ contact_person = Unset
    /\ op = "none"
    /\ call = NoCall
    /\ arg = Unset
    /\ err = NoError
    /\ pre = NoFields

\* there is no object to call a setter on until a construction has succeeded
New ==
    /\ ~constructed
    /\ \E sh \in Shapes, T \in LifeTuples : Construct(MakeCall(sh, ItemsOf(T)))
SetCustomerId == constructed /\ \E v \in ProbeIds : set_customer_id(v)
SetName == constructed /\ \E v \in ProbeNames : set_name(v)
SetAddress == constructed /\ \E v \in ProbeAddresses : set_address(v)
SetPhone == constructed /\ \E v \in ProbePhones : set_phone(v)
SetContactPerson == constructed /\ \E v \in ProbeContacts : set_contact_person(v)

Next == New \/ SetCustomerId \/ SetName \/ SetAddress \/ SetPhone \/ SetContactPerson

Spec == Init /\ [][Next]_vars

(***************************************************************************)
(* SpecCall: one call, on every input of the bounded sets.  A constructor  *)
(* call starts from no object; a setter call starts from the object that   *)
(* Customer(1, "ab", "abcde", "12345", "a b") returns.                     *)
(***************************************************************************)
BaseObject ==
    /\ constructed = TRUE
    /\ customer_id = BaseTuple[1]
    /\ name = BaseTuple[2]
    /\ address = BaseTuple[3]
    /\ phone = BaseTuple[4]
    /\ contact_person = BaseTuple[5]
    /\ op = "none"
    /\ call = NoCall
    /\ arg = Unset
    /\ err = NoError
    /\ pre = NoFields

InitCall == Init \/ BaseObject

CallNew == op = "none" /\ \E sh \in Shapes, T \in Tuples : Construct(MakeCall(sh, ItemsOf(T)))
CallNewOther == op = "none" /\ \E c \in OtherCalls : Construct(c)
CallSetCustomerId == op = "none" /\ \E v \in IdInputs : set_customer_id(v)
CallSetName == op = "none" /\ \E v \in StrInputs : set_name(v)
CallSetAddress == op = "none" /\ \E v \in StrInputs : set_address(v)
CallSetPhone == op = "none" /\ \E v \in PhoneInputs : set_phone(v)
CallSetContactPerson == op = "none" /\ \E v \in StrInputs : set_contact_person(v)

NextCall ==
    \/ CallNew
    \/ CallNewOther
    \/ CallSetCustomerId
    \/ CallSetName
    \/ CallSetAddress
    \/ CallSetPhone
    \/ CallSetContactPerson

SpecCall == InitCall /\ [][NextCall]_vars

(***************************************************************************)
(* The vocabulary of the claims, written from their words and not from the *)
(* code: trimmed length, whitespace-separated tokens, the phone with its   *)
(* separators removed, and the validity rule of each field.                *)
(***************************************************************************)
NonBlank(cs) == {i \in 1..Len(cs) : cs[i] \notin Whitespace}

\* cs without its leading and trailing whitespace
Trimmed(cs) ==
    IF NonBlank(cs) = {} THEN <<>>
    ELSE SubSeq(cs, CHOOSE i \in NonBlank(cs) : \A j \in NonBlank(cs) : i <= j,
                    CHOOSE i \in NonBlank(cs) : \A j \in NonBlank(cs) : j <= i)

\* how many whitespace-separated tokens cs holds: the places where one starts
TokenCount(cs) ==
    Cardinality({i \in NonBlank(cs) : i = 1 \/ cs[i - 1] \in Whitespace})

\* cs with all spaces, "(", ")" and "-" removed
Separators == {" ", "(", ")", "-"}
Stripped(cs) == SelectSeq(cs, LAMBDA x : x \notin Separators)

AllDecimal(d) == \A i \in 1..Len(d) : d[i] \in DecimalDigits

RuleCustomerId(v) == v.t = "int" /\ v.n > 0
RuleName(v) == v.t = "str" /\ Len(Trimmed(v.s)) >= 2
RuleAddress(v) == v.t = "str" /\ Len(Trimmed(v.s)) >= 5
RulePhone(v) == v.t = "str" /\ AllDecimal(Stripped(v.s)) /\ Len(Stripped(v.s)) >= 5
RuleContactPerson(v) ==
    v.t = "str" /\ Len(Trimmed(v.s)) >= 2 /\ TokenCount(v.s) >= 2

\* the error each rule prescribes, "ok" when the value is to be accepted
IdOutcome(v) ==
    IF v.t # "int" THEN "TypeError"
    ELSE IF v.n <= 0 THEN "RangeError"
    ELSE "ok"

StringOutcome(v, min) ==
    IF v.t # "str" THEN "TypeError"
    ELSE IF Trimmed(v.s) = <<>> THEN "EmptyValueError"
    ELSE IF Len(Trimmed(v.s)) < min THEN "TooShortError"
    ELSE "ok"

PhoneOutcome(v) ==
    IF v.t # "str" THEN "TypeError"
    ELSE IF ~AllDecimal(Stripped(v.s)) THEN "InvalidFormatError"
    ELSE IF Len(Stripped(v.s)) < 5 THEN "TooShortError"
    ELSE "ok"

ContactOutcome(v) ==
    IF StringOutcome(v, 2) # "ok" THEN StringOutcome(v, 2)
    ELSE IF TokenCount(v.s) < 2 THEN "MalformedNameError"
    ELSE "ok"

Setters == {"set_customer_id", "set_name", "set_address", "set_phone", "set_contact_person"}

\* the field a setter targets
FieldOf(which) ==
    CASE which = "set_customer_id" -> "customer_id"
      [] which = "set_name" -> "name"
      [] which = "set_address" -> "address"
      [] which = "set_phone" -> "phone"
      [] OTHER -> "contact_person"

RuleOf(which, v) ==
    CASE which = "set_customer_id" -> RuleCustomerId(v)
      [] which = "set_name" -> RuleName(v)
      [] which = "set_address" -> RuleAddress(v)
      [] which = "set_phone" -> RulePhone(v)
      [] OTHER -> RuleContactPerson(v)

\* the last call was a construction, in one of the four shapes, that supplied
\* exactly the five keys; Given(i) is the value it supplied for field i
FullCall ==
    /\ op = "init"
    /\ call.shape \in Shapes
    /\ Len(call.given) = 5
    /\ \A i \in 1..5 : call.given[i].key = required_fields[i]
Given(i) == call.given[i].val
GivenFields == Fields(Given(1), Given(2), Given(3), Given(4), Given(5))

\* the names the specification gives to the failures of the program
Taxonomy ==
    {"InvalidArgumentError", "FormatError", "MissingFieldError", "TypeError",
     "RangeError", "EmptyValueError", "TooShortError", "InvalidFormatError",
     "MalformedNameError"}

(***************************************************************************)
(* What the code guarantees whatever the argument: a stored field passed   *)
(* its validator, and a setter that raises leaves the object as it was.    *)
(***************************************************************************)
FieldsPassValidators ==
    constructed =>
        /\ validate_customer_id(customer_id) = NoError
        /\ validate_string_field(name, 2) = NoError
        /\ validate_string_field(address, 5) = NoError
        /\ validate_phone(phone) = NoError
        /\ validate_contact_person(contact_person) = NoError

SettersAtomic ==
    op \in Setters =>
        IF err = NoError THEN CurrentFields = [pre EXCEPT ![FieldOf(op)] = arg]
        ELSE CurrentFields = pre

(***************************************************************************)
(* The claims.                                                             *)
(***************************************************************************)

\* C1: in every state reached by a successful construction and any sequence
\* of setter calls, all five stored fields satisfy their validity rules
\* (customerId an integer > 0, name trimmed length >= 2, address trimmed
\* length >= 5, phone all digits and at least 5 of them once its separators
\* are removed, contactPerson trimmed length >= 2 and at least 2 tokens).
C1_FieldsAlwaysValid ==
    constructed =>
        /\ RuleCustomerId(customer_id)
        /\ RuleName(name)
        /\ RuleAddress(address)
        /\ RulePhone(phone)
        /\ RuleContactPerson(contact_person)

\* C2: every setter call is all-or-nothing: an argument that violates the
\* field's rule raises and leaves all five fields at their pre-call values;
\* a valid argument becomes the targeted field and the other four stay.
C2_SettersAllOrNothing ==
    op \in Setters =>
        IF RuleOf(op, arg)
        THEN err = NoError /\ CurrentFields = [pre EXCEPT ![FieldOf(op)] = arg]
        ELSE err # NoError /\ CurrentFields = pre

\* C3: the four construction paths agree on every tuple of five values:
\* the call made ends as the positional call on the same values ends (the
\* same error, or the same five fields), a success returns on every getter
\* the value supplied, and a failure is a validation error.
C3_PathsAgree ==
    FullCall =>
        LET r == Customer__init__(MakeCall("positional", call.given).args, <<>>) IN
        /\ err = r.err
        /\ CurrentFields = r.fields
        /\ constructed => CurrentFields = GivenFields
        /\ ~constructed =>
              err.kind \in {"TypeError", "RangeError", "EmptyValueError", "TooShortError",
                            "InvalidFormatError", "MalformedNameError"}

\* a construction from text succeeded and every getter returns what was encoded
C3_Witness ==
    FullCall /\ call.shape = "text" /\ constructed /\ CurrentFields = GivenFields

\* C4: a call that is not of one of the four shapes (one str, one mapping,
\* five positional values, named parameters only) fails with
\* InvalidArgumentError and produces no object, and a call of one of the
\* four shapes is not refused for its shape.
AcceptedShape(c) ==
    \/ Len(c.args) = 1 /\ c.kwargs = <<>> /\ c.args[1].t \in {"str", "dict"}
    \/ Len(c.args) = 5 /\ c.kwargs = <<>>
    \/ c.args = <<>> /\ c.kwargs # <<>>
C4_OnlyFourShapes ==
    op = "init" =>
        IF AcceptedShape(call) THEN err.kind # "InvalidArgumentError"
        ELSE err.kind = "InvalidArgumentError" /\ ~constructed

\* C5: construction from a mapping, or from text that decodes to a mapping,
\* that lacks at least one of the five required keys fails with
\* MissingFieldError naming exactly the absent keys, whatever the values of
\* the present keys, and assigns no field.
AbsentKeys(items) ==
    {k \in RequiredSet : \A i \in 1..Len(items) : items[i].key # k}
C5_MissingKeysNamed ==
    (op = "init" /\ call.shape \in {"text", "mapping"} /\ AbsentKeys(call.given) # {}) =>
        /\ err.kind = "MissingFieldError"
        /\ {err.missing[i] : i \in 1..Len(err.missing)} = AbsentKeys(call.given)
        /\ Len(err.missing) = Cardinality(AbsentKeys(call.given))
        /\ ~constructed
        /\ CurrentFields = NoFields

\* text without "phone" and "name", whose customer_id is invalid, was refused
\* for the two keys it lacks
C5_Witness ==
    /\ op = "init"
    /\ call.shape = "text"
    /\ AbsentKeys(call.given) = {<<"name">>, <<"phone">>}
    /\ \E i \in 1..Len(call.given) :
          call.given[i].key = <<"customer_id">> /\ call.given[i].val = PyInt(0)
    /\ err.missing = << <<"name">>, <<"phone">> >>

\* C6: in all four construction shapes and in set_customer_id, a customerId
\* is accepted iff it is of integer type and > 0: an integer <= 0 fails with
\* RangeError, a value of another type (str, float, bool, null) with TypeError.
C6_CustomerIdRule ==
    /\ op = "set_customer_id" =>
          /\ err.kind = IdOutcome(arg)
          /\ err = NoError => customer_id = arg
    /\ FullCall =>
          IF IdOutcome(Given(1)) # "ok"
          THEN err.kind = IdOutcome(Given(1)) /\ ~constructed
          ELSE err.line \notin {78, 80}

\* the other fields of a full call are accepted by the code
OthersAccepted(i) ==
    /\ i # 1 => validate_customer_id(Given(1)) = NoError
    /\ i # 2 => validate_string_field(Given(2), 2) = NoError
    /\ i # 3 => validate_string_field(Given(3), 5) = NoError
    /\ i # 4 => validate_phone(Given(4)) = NoError
    /\ i # 5 => validate_contact_person(Given(5)) = NoError

\* C7: for a phone string, d being the string without spaces, "(", ")" and
\* "-": a character of d that is no decimal digit fails with
\* InvalidFormatError; otherwise fewer than 5 digits (0 to 4) fail with
\* TooShortError; otherwise the call succeeds and the getter returns the
\* original string.
C7_PhoneRule ==
    /\ (op = "set_phone" /\ arg.t = "str") =>
          /\ err.kind = PhoneOutcome(arg)
          /\ err = NoError => phone = arg
    /\ (FullCall /\ OthersAccepted(4) /\ Given(4).t = "str") =>
          /\ err.kind = PhoneOutcome(Given(4))
          /\ err = NoError => constructed /\ phone = Given(4)

\* C8: for a contactPerson the checks apply in order and the first that
\* fails decides the error: not a string -> TypeError, trimmed value empty ->
\* EmptyValueError, trimmed length < 2 -> TooShortError, fewer than 2 tokens ->
\* MalformedNameError; otherwise the value is accepted and stored.
C8_ContactPersonRule ==
    /\ op = "set_contact_person" =>
          /\ err.kind = ContactOutcome(arg)
          /\ contact_person = IF ContactOutcome(arg) = "ok" THEN arg ELSE pre.contact_person
    /\ (FullCall /\ OthersAccepted(5)) =>
          /\ err.kind = ContactOutcome(Given(5))
          /\ constructed = (ContactOutcome(Given(5)) = "ok")
          /\ constructed => contact_person = Given(5)

\* a single token of two characters was refused as a malformed name, at
\* construction
C8_Witness ==
    /\ FullCall
    /\ OthersAccepted(5)
    /\ Given(5) = PyStr(<<"a", "a">>)
    /\ err.kind = "MalformedNameError"

\* C9: for name (minimum 2) and address (minimum 5): a non-string fails with
\* TypeError, a string whose trimmed value is empty with EmptyValueError, one
\* whose trimmed length is below the minimum with TooShortError; one whose
\* trimmed length reaches the minimum is accepted and stored as given,
\* untrimmed.
C9_NameAddressRule ==
    /\ op = "set_name" =>
          /\ err.kind = StringOutcome(arg, 2)
          /\ name = IF StringOutcome(arg, 2) = "ok" THEN arg ELSE pre.name
    /\ op = "set_address" =>
          /\ err.kind = StringOutcome(arg, 5)
          /\ address = IF StringOutcome(arg, 5) = "ok" THEN arg ELSE pre.address
    /\ (FullCall /\ OthersAccepted(2)) =>
          /\ err.kind = StringOutcome(Given(2), 2)
          /\ constructed = (StringOutcome(Given(2), 2) = "ok")
          /\ constructed => name = Given(2)
    /\ (FullCall /\ OthersAccepted(3)) =>
          /\ err.kind = StringOutcome(Given(3), 5)
          /\ constructed = (StringOutcome(Given(3), 5) = "ok")
          /\ constructed => address = Given(3)

\* set_address stored a padded address of trimmed length 5 exactly as given
C9_Witness ==
    /\ op = "set_address"
    /\ arg = PyStr(<<" ", "a", "a", "a", "a", "a">>)
    /\ err = NoError
    /\ address = arg

\* C10: construction from a single textual argument fails only with errors
\* of the program's taxonomy; text that decodes to something that is no
\* mapping fails with one of them, never with an unclassified runtime error.
C10_TextErrorsInTaxonomy ==
    (op = "init" /\ Len(call.args) = 1 /\ call.args[1].t = "str" /\ call.kwargs = <<>>) =>
        /\ err.kind \in Taxonomy \cup {"ok"}
        /\ json_loads(call.args[1].toks).data.t # "dict" => ~constructed

====
